---- MODULE Spec2Model ----
(***************************************************************************)
(* Ken Burns video generator: the Lambda handler of                        *)
(* src/lambda/ken_burns_video_generator.py (in-process, moviepy) and of    *)
(* src/old/ken_burns_video_generator.py (ffmpeg command lines).            *)
(*                                                                         *)
(* One invocation is three steps: the runtime delivers an event (Invoke),  *)
(* the handler runs to its end (ProcessSegment, CombineSegments, ...) and  *)
(* the runtime takes the result (Return).  Everything the handler reads    *)
(* from outside (S3, the image decoder, ffmpeg's exit code) is part of the *)
(* event record: each image reference carries what will happen to it.      *)
(* tmp is the temp directory, which the container keeps between            *)
(* invocations.                                                            *)
(*                                                                         *)
(* EffectSpec looks inside one image clip: clip is the clip that           *)
(* _apply_ken_burns_effect returns and shots are the frames asked of it.   *)
(*                                                                         *)
(* BootSpec is the loop of src/lambda/bootstrap.py, the custom runtime     *)
(* that fetches events and posts their results; mode is the set of         *)
(* processing methods an invocation of the handler entered.                *)
(*                                                                         *)
(* Durations are exact rationals [num, den] (Python floats in the code);   *)
(* the model does not represent floating-point rounding error.             *)
(*                                                                         *)
(* Every record is written with its fields in the order in which the       *)
(* field names first occur in this module, the order TLC keeps them in.    *)
(***************************************************************************)
EXTENDS Integers, Sequences, FiniteSets, TLC

VARIABLES impl, pc, event, response, encoded, uploaded, tmp, clip, shots,
          mode, at, request_id, event_data, posts, fetched

\* the variables of the bootstrap loop (src/lambda/bootstrap.py)
bootVars == <<at, request_id, event_data, posts, fetched>>

vars == <<impl, pc, event, response, encoded, uploaded, tmp, clip, shots,
          mode, bootVars>>

----------------------------------------------------------------------------
(* Bounds *)

\* images in a segment-processing event
MaxImages == 3
\* frames requested from one image clip
MaxShots == 3
\* images in a project manifest, over all its segments
MaxManifestImages == 2
\* segments in a manifest, segment results in a combination event
MaxSegments == 2
\* events the Runtime API hands to one bootstrap process
MaxRequests == 3
\* POST requests one bootstrap process makes
MaxPosts == 4

----------------------------------------------------------------------------
(* Program constants *)

DEFAULT_FPS == 24

\* (width, height)
DEFAULT_RESOLUTION == <<1920, 1080>>

----------------------------------------------------------------------------
(* Rational arithmetic (denominators are positive) *)

RECURSIVE Gcd(_, _)
Gcd(a, b) == IF b = 0 THEN a ELSE Gcd(b, a % b)

Abs(n) == IF n < 0 THEN -n ELSE n

\* n/d in lowest terms, so that equal values are equal records
Rat(n, d) ==
    LET g == Gcd(Abs(n), d)
    IN  [num |-> n \div g, den |-> d \div g]

Zero == Rat(0, 1)

RatEq(a, b) == a.num * b.den = b.num * a.den

RatLt(a, b) == a.num * b.den < b.num * a.den

RatLe(a, b) == a.num * b.den <= b.num * a.den

RatAdd(a, b) == Rat(a.num * b.den + b.num * a.den, a.den * b.den)

RatSub(a, b) == Rat(a.num * b.den - b.num * a.den, a.den * b.den)

\* a / n for an integer n > 0
RatDivInt(a, n) == Rat(a.num, a.den * n)

RatMulInt(a, n) == Rat(a.num * n, a.den)

RatMin(a, b) == IF RatLt(b, a) THEN b ELSE a

RatMul(a, b) == Rat(a.num * b.num, a.den * b.den)

\* a / b for b > 0
RatDiv(a, b) == Rat(a.num * b.den, a.den * b.num)

One == Rat(1, 1)

\* floor and ceiling of a non-negative rational
Floor(a) == a.num \div a.den

Ceil(a) == (a.num + a.den - 1) \div a.den

\* Python's int(): truncation toward zero
PyInt(a) == IF a.num >= 0 THEN a.num \div a.den ELSE -((-a.num) \div a.den)

----------------------------------------------------------------------------
(* What the outside world does to one image reference of an event or a     *)
(* manifest:                                                               *)
(*   nokey    the entry has no s3_key (no url in src/old)                  *)
(*   dlfail   the download fails, the downloader returns None              *)
(*   ok       downloaded, on disk, decodable                               *)
(*   missing  downloaded, but the file is not on disk when the segment is  *)
(*            assembled (os.path.exists is false)                          *)
(*   corrupt  downloaded and on disk, but the decoder rejects it           *)
(*            (ImageClip raises, ffmpeg exits non-zero)                    *)
ImgStatus == {"nokey", "dlfail", "ok", "missing", "corrupt"}

HasKey(st) == st # "nokey"

\* _download_s3_file / _download_image return a path, not None
Downloaded(st) == st \in {"ok", "missing", "corrupt"}

\* os.path.exists(image_path)
PathExists(st) == st # "missing"

\* ImageClip(image_path) does not raise
Decodes(st) == st # "corrupt"

\* the audio reference of a manifest: none, a download that fails (or a
\* path that is not on disk), or a file of duration dur > 0
NoAudio == [st |-> "none", dur |-> Zero]

\* what a handler leaves behind: the file the encoder wrote
NoVideo == [made |-> FALSE, kind |-> "none", parts |-> <<>>,
            has_audio |-> FALSE, audio |-> Zero, duration |-> Zero]

RECURSIVE SumDur(_)
SumDur(parts) ==
    IF parts = <<>> THEN Zero
    ELSE RatAdd(SumDur(SubSeq(parts, 1, Len(parts) - 1)), parts[Len(parts)].dur)

\* start time of part i in the concatenation (moviepy: np.cumsum of durations)
StartOf(parts, i) == SumDur(SubSeq(parts, 1, i - 1))

\* write_videofile at fps: one frame per t = k/fps with 0 <= t < duration; the
\* concatenation serves frame t from the last clip that starts at or before t
FramesOf(parts, i, fps) ==
    Ceil(RatMulInt(RatAdd(StartOf(parts, i), parts[i].dur), fps))
      - Ceil(RatMulInt(StartOf(parts, i), fps))

\* concatenate_videoclips(clips).set_fps(fps): the clips in order, each with
\* the frames the encoder will sample from it
ConcatenateVideoclips(clips, fps) ==
    [i \in 1..Len(clips) |->
        [dur |-> clips[i].dur, seg |-> clips[i].seg, img |-> clips[i].img,
         frames |-> FramesOf(clips, i, fps)]]

----------------------------------------------------------------------------
(* src/lambda: the in-process (moviepy) generator *)

\* _apply_ken_burns_effect: a clip over one image with set_duration(duration),
\* on the effect path and on the fallback path alike
ApplyKenBurnsEffect(image, duration) ==
    [dur |-> duration, seg |-> image.seg, img |-> image.img]

\* the image loop putting each new clip in front of the earlier ones
RECURSIVE ImageLoopPrepending(_, _, _, _)
ImageLoopPrepending(images, i, image_duration, clips) ==
    IF i > Len(images) THEN [clips |-> clips, raised |-> FALSE]
    ELSE IF ~PathExists(images[i].st)
         THEN ImageLoopPrepending(images, i + 1, image_duration, clips)
    ELSE IF ~Decodes(images[i].st)
         THEN [clips |-> clips, raised |-> TRUE]
    ELSE ImageLoopPrepending(images, i + 1, image_duration,
             <<ApplyKenBurnsEffect(images[i], image_duration)>> \o clips)

\* the for loop of _generate_segment_video and _create_ken_burns_segment:
\* a path that is not on disk is skipped, a file that does not decode raises
RECURSIVE ImageLoop(_, _, _, _)
ImageLoop(images, i, image_duration, clips) ==
    IF i > Len(images) THEN [clips |-> clips, raised |-> FALSE]
    ELSE IF ~PathExists(images[i].st)
         THEN ImageLoop(images, i + 1, image_duration, clips)
    ELSE IF ~Decodes(images[i].st)
         THEN [clips |-> clips, raised |-> TRUE]
    ELSE ImageLoop(images, i + 1, image_duration,
                   Append(clips, ApplyKenBurnsEffect(images[i], image_duration)))

\* the segment video with the duration split over the files found on disk
GenerateSegmentVideoOverExisting(images, duration) ==
    IF images = <<>> THEN [raised |-> TRUE, video |-> NoVideo]
    ELSE LET existing == SelectSeq(images, LAMBDA im : PathExists(im.st))
             image_duration ==
                 IF existing = <<>> THEN duration
                 ELSE RatDivInt(duration, Len(existing))
             loop == ImageLoop(images, 1, image_duration, <<>>)
         IN  IF loop.raised \/ loop.clips = <<>>
             THEN [raised |-> TRUE, video |-> NoVideo]
             ELSE [raised |-> FALSE,
                   video |-> [made |-> TRUE, kind |-> "segment",
                              parts |-> ConcatenateVideoclips(loop.clips, DEFAULT_FPS),
                              has_audio |-> FALSE, audio |-> Zero,
                              duration |-> SumDur(loop.clips)]]

\* _generate_segment_video: raises on an empty list, on a file that does not
\* decode and when no clip was made; otherwise encodes segment_video.mp4
GenerateSegmentVideo(images, duration) ==
    IF images = <<>> THEN [raised |-> TRUE, video |-> NoVideo]
    ELSE LET image_count == Len(images)
             image_duration == RatDivInt(duration, image_count)
             loop == ImageLoop(images, 1, image_duration, <<>>)
         IN  IF loop.raised \/ loop.clips = <<>>
             THEN [raised |-> TRUE, video |-> NoVideo]
             ELSE [raised |-> FALSE,
                   video |-> [made |-> TRUE, kind |-> "segment",
                              parts |-> ConcatenateVideoclips(loop.clips, DEFAULT_FPS),
                              has_audio |-> FALSE, audio |-> Zero,
                              duration |-> SumDur(loop.clips)]]

\* _create_ken_burns_segment: the same loop, but None (none |-> TRUE) where
\* _generate_segment_video raises
CreateKenBurnsSegment(images, duration) ==
    IF images = <<>> THEN [clips |-> <<>>, none |-> TRUE]
    ELSE LET image_count == Len(images)
             image_duration == RatDivInt(duration, image_count)
             loop == ImageLoop(images, 1, image_duration, <<>>)
         IN  IF loop.raised \/ loop.clips = <<>>
             THEN [clips |-> <<>>, none |-> TRUE]
             ELSE [clips |-> loop.clips, none |-> FALSE]

\* SetAudio without the trim
SetAudioUntrimmed(video, audio_file) ==
    IF audio_file.st = "ok"
    THEN [video EXCEPT !.has_audio = TRUE, !.audio = audio_file.dur]
    ELSE video

\* "Add audio if available": the audio is attached when it was downloaded and
\* is on disk, trimmed to the video when it is longer
SetAudio(video, audio_file) ==
    IF audio_file.st = "ok"
    THEN [video EXCEPT !.has_audio = TRUE,
                       !.audio = IF RatLt(video.duration, audio_file.dur)
                                 THEN video.duration ELSE audio_file.dur]
    ELSE video

RECURSIVE Flatten(_)
Flatten(clips) ==
    IF clips = <<>> THEN <<>> ELSE Head(clips) \o Flatten(Tail(clips))

\* the segment loop collecting the segment clips last segment first
RECURSIVE VideoClipsReversed(_, _, _)
VideoClipsReversed(images, segments, s) ==
    IF s > Len(segments) THEN <<>>
    ELSE LET segment_images == SelectSeq(images, LAMBDA img : img.seg = s)
             segment_duration ==
                 RatSub(segments[s].end_time, segments[s].start_time)
             segment_clip == CreateKenBurnsSegment(segment_images, segment_duration)
         IN  VideoClipsReversed(images, segments, s + 1)
             \o (IF segment_images # <<>> /\ ~segment_clip.none
                 THEN <<segment_clip.clips>> ELSE <<>>)

\* the segment loop giving up on every clip as soon as one segment has none
RECURSIVE VideoClipsAllOrNothing(_, _, _)
VideoClipsAllOrNothing(images, segments, s) ==
    IF s > Len(segments) THEN <<>>
    ELSE LET segment_images == SelectSeq(images, LAMBDA img : img.seg = s)
             segment_duration ==
                 RatSub(segments[s].end_time, segments[s].start_time)
             segment_clip == CreateKenBurnsSegment(segment_images, segment_duration)
             rest == VideoClipsAllOrNothing(images, segments, s + 1)
         IN  IF segment_images # <<>> /\ ~segment_clip.none
                /\ (s = Len(segments) \/ rest # <<>>)
             THEN <<segment_clip.clips>> \o rest
             ELSE <<>>

\* the segment loop of _generate_ken_burns_video: the segment clips of the
\* manifest's segments, in manifest order; a segment without downloaded images
\* and a segment whose clip is None are passed over
RECURSIVE VideoClips(_, _, _)
VideoClips(images, segments, s) ==
    IF s > Len(segments) THEN <<>>
    ELSE LET segment_images == SelectSeq(images, LAMBDA img : img.seg = s)
             segment_duration ==
                 RatSub(segments[s].end_time, segments[s].start_time)
             segment_clip == CreateKenBurnsSegment(segment_images, segment_duration)
         IN  (IF segment_images # <<>> /\ ~segment_clip.none
              THEN <<segment_clip.clips>> ELSE <<>>)
             \o VideoClips(images, segments, s + 1)

\* _generate_ken_burns_video: raises when no segment gave a clip, otherwise
\* encodes final_video.mp4 from the clips it has
GenerateKenBurnsVideo(images, audio_file, manifest) ==
    LET video_clips == VideoClips(images, manifest.segments, 1)
        final == Flatten(video_clips)
    IN  IF video_clips = <<>> THEN [raised |-> TRUE, video |-> NoVideo]
        ELSE [raised |-> FALSE,
              video |-> SetAudio([made |-> TRUE, kind |-> "final",
                                  parts |-> ConcatenateVideoclips(final, DEFAULT_FPS),
                                  has_audio |-> FALSE, audio |-> Zero,
                                  duration |-> SumDur(final)],
                                 audio_file)]

\* the loading loop of _combine_segments_with_audio, then the same
\* concatenation and audio step; a segment video is a clip of its own
\* (img = 0) whose duration is that of the file
LoadedSegmentVideos(segment_videos) ==
    SelectSeq(segment_videos, LAMBDA v : PathExists(v.st))

CombineSegmentsWithAudio(segment_videos, audio_file) ==
    LET video_clips == LoadedSegmentVideos(segment_videos)
    IN  IF video_clips = <<>> THEN [raised |-> TRUE, video |-> NoVideo]
        ELSE [raised |-> FALSE,
              video |-> SetAudio([made |-> TRUE, kind |-> "final",
                                  parts |-> ConcatenateVideoclips(video_clips, DEFAULT_FPS),
                                  has_audio |-> FALSE, audio |-> Zero,
                                  duration |-> SumDur(video_clips)],
                                 audio_file)]

\* datetime.now().iso8601(): datetime has no attribute iso8601, so the call
\* raises AttributeError wherever src/lambda evaluates it
Iso8601Raises == TRUE

Raised(what) == [raised |-> TRUE, statusCode |-> 0, error |-> what]

\* _error_response (src/lambda): the body holds datetime.now().iso8601()
ErrorResponse(message) ==
    IF Iso8601Raises THEN Raised("AttributeError")
    ELSE [raised |-> FALSE, statusCode |-> 500, error |-> message]

\* a success body of src/lambda: it holds datetime.now().iso8601() too; the
\* exception is caught by the handler's own except, which builds an error response
SuccessResponse(failed_message) ==
    IF Iso8601Raises THEN ErrorResponse(failed_message)
    ELSE [raised |-> FALSE, statusCode |-> 200, error |-> ""]

\* _upload_segment_video / _upload_final_video (src/lambda): the ExtraArgs
\* metadata is built, with datetime.now().iso8601(), before upload_file is called
UploadRaises == Iso8601Raises

\* the images a handler downloaded, each with its place in the event
\* (seg: index of the manifest segment, 0 in a segment event; img: index in
\* that list) and what the disk and the decoder will make of it
DownloadImages(images, seg) ==
    SelectSeq([i \in 1..Len(images) |-> [st |-> images[i], seg |-> seg, img |-> i]],
              LAMBDA x : HasKey(x.st) /\ Downloaded(x.st))

\* event.get('duration', 0)
EventDuration(e) == IF e.has_duration THEN e.duration ELSE Zero

\* _process_segment (src/lambda)
ProcessSegmentResult(e) ==
    LET segment_images == DownloadImages(e.images, 0)
        gen == GenerateSegmentVideo(segment_images, EventDuration(e))
    IN  IF segment_images = <<>>
        THEN [response |-> ErrorResponse("No images found for segment"),
              encoded |-> NoVideo, uploaded |-> "none"]
        ELSE IF gen.raised
        THEN [response |-> ErrorResponse("Segment processing failed"),
              encoded |-> NoVideo, uploaded |-> "none"]
        ELSE IF UploadRaises
        THEN [response |-> ErrorResponse("Segment processing failed"),
              encoded |-> gen.video, uploaded |-> "none"]
        ELSE [response |-> SuccessResponse("Segment processing failed"),
              encoded |-> gen.video, uploaded |-> "segment"]

\* _download_project_images (src/lambda): every segment's images, in order
RECURSIVE DownloadProjectImages(_, _)
DownloadProjectImages(segments, s) ==
    IF s > Len(segments) THEN <<>>
    ELSE DownloadImages(segments[s].images, s) \o DownloadProjectImages(segments, s + 1)

\* _process_full_video (src/lambda)
ProcessFullVideoResult(e) ==
    LET manifest == e.manifest
        images == DownloadProjectImages(manifest.segments, 1)
        gen == GenerateKenBurnsVideo(images, manifest.audio, manifest)
    IN  IF ~manifest.ok
        THEN [response |-> ErrorResponse("Could not download manifest"),
              encoded |-> NoVideo, uploaded |-> "none"]
        ELSE IF images = <<>>
        THEN [response |-> ErrorResponse("No images found for project"),
              encoded |-> NoVideo, uploaded |-> "none"]
        ELSE IF gen.raised
        THEN [response |-> ErrorResponse("Full video generation failed"),
              encoded |-> NoVideo, uploaded |-> "none"]
        ELSE IF UploadRaises
        THEN [response |-> ErrorResponse("Full video generation failed"),
              encoded |-> gen.video, uploaded |-> "none"]
        ELSE [response |-> SuccessResponse("Full video generation failed"),
              encoded |-> gen.video, uploaded |-> "final"]

\* the download loop of _combine_segments: the results marked successful that
\* have a key and whose download gave a path, in the order of segment_results
DownloadSegmentVideos(segment_results) ==
    SelectSeq([i \in 1..Len(segment_results) |->
                  [st |-> segment_results[i].st,
                   dur |-> segment_results[i].dur, seg |-> i, img |-> 0,
                   success |-> segment_results[i].success]],
              LAMBDA x : x.success /\ HasKey(x.st) /\ Downloaded(x.st))

\* _combine_segments (src/lambda)
CombineSegmentsResult(e) ==
    LET segment_videos == DownloadSegmentVideos(e.segment_results)
        audio_file == IF e.manifest.ok THEN e.manifest.audio ELSE NoAudio
        gen == CombineSegmentsWithAudio(segment_videos, audio_file)
    IN  IF segment_videos = <<>>
        THEN [response |-> ErrorResponse("No segment videos found"),
              encoded |-> NoVideo, uploaded |-> "none"]
        ELSE IF gen.raised
        THEN [response |-> ErrorResponse("Segment combination failed"),
              encoded |-> NoVideo, uploaded |-> "none"]
        ELSE IF UploadRaises
        THEN [response |-> ErrorResponse("Segment combination failed"),
              encoded |-> gen.video, uploaded |-> "none"]
        ELSE [response |-> SuccessResponse("Segment combination failed"),
              encoded |-> gen.video, uploaded |-> "final"]

\* the try/except of lambda_handler (src/lambda) around a handler's result:
\* an exception that left the handler is answered with _error_response
HandlerExcept(result) ==
    IF result.response.raised
    THEN [result EXCEPT !.response = ErrorResponse("Video generation failed")]
    ELSE result

----------------------------------------------------------------------------
(* src/old: the ffmpeg generator *)

\* _error_response (src/old): datetime.now().isoformat() exists
ErrorResponseOld(message) ==
    [raised |-> FALSE, statusCode |-> 500, error |-> message]

SuccessResponseOld == [raised |-> FALSE, statusCode |-> 200, error |-> ""]

\* event.get('duration', 5.0)
EventDurationOld(e) == IF e.has_duration THEN e.duration ELSE Rat(5, 1)

\* manifest.get('duration', 30.0)
ManifestDurationOld(manifest) ==
    IF manifest.has_duration THEN manifest.duration ELSE Rat(30, 1)

\* the zoompan command of _generate_segment_video_ffmpeg and of
\* _generate_ken_burns_video_ffmpeg: one input, image_paths[0], shown for
\* -t duration with d = int(duration * DEFAULT_FPS) frames; None when ffmpeg
\* exits non-zero (the input is not on disk or does not decode)
ZoompanFfmpeg(image_paths, duration, kind) ==
    IF image_paths = <<>> THEN [video |-> NoVideo, none |-> TRUE]
    ELSE LET input_image == image_paths[1]
         IN  IF ~PathExists(input_image.st) \/ ~Decodes(input_image.st)
             THEN [video |-> NoVideo, none |-> TRUE]
             ELSE [video |-> [made |-> TRUE, kind |-> kind,
                              parts |-> <<[dur |-> duration,
                                           seg |-> input_image.seg,
                                           img |-> input_image.img,
                                           frames |-> PyInt(RatMulInt(duration, DEFAULT_FPS))]>>,
                              has_audio |-> FALSE, audio |-> Zero,
                              duration |-> duration],
                   none |-> FALSE]

GenerateSegmentVideoFfmpeg(image_paths, duration) ==
    ZoompanFfmpeg(image_paths, duration, "segment")

\* the audio command of both ffmpeg generators: -c:v copy -c:a aac -shortest,
\* the output ends with the shorter of the two streams
AddAudioFfmpeg(video, audio_file) ==
    IF audio_file.st = "ok"
    THEN [video EXCEPT !.has_audio = TRUE,
                       !.audio = RatMin(video.duration, audio_file.dur),
                       !.duration = RatMin(video.duration, audio_file.dur)]
    ELSE video

GenerateKenBurnsVideoFfmpeg(images, audio_file, manifest) ==
    LET gen == ZoompanFfmpeg(images, ManifestDurationOld(manifest), "final")
    IN  IF gen.none THEN gen
        ELSE [video |-> AddAudioFfmpeg(gen.video, audio_file), none |-> FALSE]

\* _combine_segments_with_audio_ffmpeg: the concat demuxer over every
\* downloaded segment video, in order (None when ffmpeg exits non-zero: a
\* listed file is not on disk), then the audio command
CombineSegmentsWithAudioFfmpeg(segment_videos, audio_file) ==
    IF segment_videos = <<>> THEN [video |-> NoVideo, none |-> TRUE]
    ELSE IF \E i \in 1..Len(segment_videos) : ~PathExists(segment_videos[i].st)
    THEN [video |-> NoVideo, none |-> TRUE]
    ELSE [video |-> AddAudioFfmpeg(
                        [made |-> TRUE, kind |-> "final",
                         parts |-> ConcatenateVideoclips(segment_videos, DEFAULT_FPS),
                         has_audio |-> FALSE, audio |-> Zero,
                         duration |-> SumDur(segment_videos)],
                        audio_file),
          none |-> FALSE]

\* _upload_segment_video / _upload_final_video (src/old): upload_file(None, ...)
\* raises inside the try, the uploader returns None and the handler goes on
UploadedOld(gen, what) == IF gen.none THEN "none" ELSE what

\* _process_segment (src/old)
ProcessSegmentOldResult(e) ==
    LET segment_images == DownloadImages(e.images, 0)
        gen == GenerateSegmentVideoFfmpeg(segment_images, EventDurationOld(e))
    IN  IF segment_images = <<>>
        THEN [response |-> ErrorResponseOld("No images found for segment"),
              encoded |-> NoVideo, uploaded |-> "none"]
        ELSE [response |-> SuccessResponseOld,
              encoded |-> gen.video, uploaded |-> UploadedOld(gen, "segment")]

\* _process_full_video (src/old)
ProcessFullVideoOldResult(e) ==
    LET manifest == e.manifest
        images == DownloadProjectImages(manifest.segments, 1)
        gen == GenerateKenBurnsVideoFfmpeg(images, manifest.audio, manifest)
    IN  IF ~manifest.ok
        THEN [response |-> ErrorResponseOld("Could not download manifest"),
              encoded |-> NoVideo, uploaded |-> "none"]
        ELSE IF images = <<>>
        THEN [response |-> ErrorResponseOld("No images found for project"),
              encoded |-> NoVideo, uploaded |-> "none"]
        ELSE [response |-> SuccessResponseOld,
              encoded |-> gen.video, uploaded |-> UploadedOld(gen, "final")]

\* _combine_segments (src/old)
CombineSegmentsOldResult(e) ==
    LET segment_videos == DownloadSegmentVideos(e.segment_results)
        audio_file == IF e.manifest.ok THEN e.manifest.audio ELSE NoAudio
        gen == CombineSegmentsWithAudioFfmpeg(segment_videos, audio_file)
    IN  IF segment_videos = <<>>
        THEN [response |-> ErrorResponseOld("No segment videos found"),
              encoded |-> NoVideo, uploaded |-> "none"]
        ELSE [response |-> SuccessResponseOld,
              encoded |-> gen.video, uploaded |-> UploadedOld(gen, "final")]

----------------------------------------------------------------------------
(* The temp directory (TEMP_DIR = '/tmp', kept by the container from one   *)
(* invocation to the next).  Files are known by the start of their name,   *)
(* which is all _cleanup_temp_files looks at: "segment_" (segment images   *)
(* segment_<id>_<n>.jpg, segment videos segment_video.mp4 and              *)
(* segment_<n>.mp4), "image_" (image_<n>.jpg), "audio." and "final_video." *)

\* a downloaded file that is still in the temp directory
OnDisk(st) == HasKey(st) /\ Downloaded(st) /\ PathExists(st)

\* the name under which the downloads of a list are found, if any is
Written(statuses, name) ==
    IF \E i \in 1..Len(statuses) : OnDisk(statuses[i]) THEN {name} ELSE {}

\* _cleanup_temp_files (src/lambda): removes the files whose name starts
\* with 'image_', 'audio.', 'temp-' or 'final_video.'
CleanupTempFiles(files) ==
    {f \in files : f \notin {"image_", "audio.", "temp-", "final_video."}}

\* _cleanup_temp_files (src/old): unlinks every file of the directory
CleanupTempFilesOld(files) == {}

\* the temp directory after _process_segment (src/lambda): the images, the
\* segment video; the cleanup is reached only when the upload returned
ProcessSegmentFiles(e, files) ==
    LET result == ProcessSegmentResult(e)
        written == files \cup Written(e.images, "segment_")
                     \cup (IF result.encoded.made THEN {"segment_"} ELSE {})
    IN  IF result.uploaded # "none" THEN CleanupTempFiles(written) ELSE written

\* after _combine_segments (src/lambda): the segment videos, then the audio,
\* then final_video.mp4
CombineSegmentsFiles(e, files) ==
    LET result == CombineSegmentsResult(e)
        segment_videos == DownloadSegmentVideos(e.segment_results)
        written ==
            files \cup Written([i \in 1..Len(segment_videos) |-> segment_videos[i].st],
                               "segment_")
                  \cup (IF segment_videos # <<>> /\ e.manifest.ok
                           /\ e.manifest.audio.st = "ok"
                        THEN {"audio."} ELSE {})
                  \cup (IF result.encoded.made THEN {"final_video."} ELSE {})
    IN  IF result.uploaded # "none" THEN CleanupTempFiles(written) ELSE written

\* all the image statuses of a manifest, in download order
RECURSIVE ManifestImages(_, _)
ManifestImages(segments, s) ==
    IF s > Len(segments) THEN <<>>
    ELSE segments[s].images \o ManifestImages(segments, s + 1)

\* after _process_full_video (src/lambda): the images and the audio, then
\* final_video.mp4
ProcessFullVideoFiles(e, files) ==
    LET result == ProcessFullVideoResult(e)
        written ==
            IF ~e.manifest.ok THEN files
            ELSE files \cup Written(ManifestImages(e.manifest.segments, 1), "image_")
                       \cup (IF e.manifest.audio.st = "ok" THEN {"audio."} ELSE {})
                       \cup (IF result.encoded.made THEN {"final_video."} ELSE {})
    IN  IF result.uploaded # "none" THEN CleanupTempFiles(written) ELSE written

\* after _process_segment (src/old): the cleanup is reached whenever an image
\* was downloaded, whatever the generator and the upload returned
ProcessSegmentOldFiles(e, files) ==
    IF DownloadImages(e.images, 0) = <<>> THEN files
    ELSE CleanupTempFilesOld(files \cup {"segment_"})

\* after _combine_segments (src/old)
CombineSegmentsOldFiles(e, files) ==
    IF DownloadSegmentVideos(e.segment_results) = <<>> THEN files
    ELSE CleanupTempFilesOld(files \cup {"segment_", "audio.", "final_video."})

\* after _process_full_video (src/old): the audio is downloaded before the
\* "No images found for project" return
ProcessFullVideoOldFiles(e, files) ==
    IF ~e.manifest.ok THEN files
    ELSE IF DownloadProjectImages(e.manifest.segments, 1) = <<>>
    THEN files \cup (IF e.manifest.audio.st = "ok" THEN {"audio."} ELSE {})
    ELSE CleanupTempFilesOld(files \cup {"image_", "audio.", "final_video."})

----------------------------------------------------------------------------
(* The events the runtime may deliver *)

ImageLists(n) == UNION {[1..k -> ImgStatus] : k \in 0..n}

\* segment durations in seconds: 4 s is 96 frames at 24 fps, 1.03 s is 24.72
\* frames and 1.01 s is 24.24 frames
SegDurations == {Rat(4, 1), Rat(103, 100), Rat(101, 100)}

\* durations of the audio track in seconds
AudioDurations == {Rat(3, 1), Rat(5, 1)}

AudioOptions ==
    {NoAudio, [st |-> "dlfail", dur |-> Zero]}
      \cup {[st |-> "ok", dur |-> a] : a \in AudioDurations}

\* a manifest that could not be downloaded or parsed
NoManifest ==
    [audio |-> NoAudio, duration |-> Zero, segments |-> <<>>,
     has_duration |-> FALSE, ok |-> FALSE]

\* a manifest of Len(durs) segments, back to back from time 0; segment s has
\* the images labelled s, in the order of the labelled list; the manifest's
\* duration is the end of its last segment
RECURSIVE SumRat(_)
SumRat(rs) ==
    IF rs = <<>> THEN Zero
    ELSE RatAdd(SumRat(SubSeq(rs, 1, Len(rs) - 1)), rs[Len(rs)])

StatusesOf(labelled, s) ==
    LET mine == SelectSeq(labelled, LAMBDA x : x[2] = s)
    IN  [i \in 1..Len(mine) |-> mine[i][1]]

MakeManifest(labelled, durs, audio) ==
    [audio |-> audio,
     duration |-> SumRat(durs),
     segments |-> [s \in 1..Len(durs) |->
                      [images |-> StatusesOf(labelled, s),
                       end_time |-> SumRat(SubSeq(durs, 1, s)),
                       start_time |-> SumRat(SubSeq(durs, 1, s - 1))]],
     has_duration |-> (durs # <<>>),
     ok |-> TRUE]

ManifestDurations == {Rat(4, 1), Rat(103, 100)}

\* the images of a manifest of n segments, listed segment by segment: each
\* with what happens to it and the segment it belongs to
LabelledImages(n) ==
    {l \in UNION {[1..k -> ImgStatus \X (1..n)] : k \in 0..MaxManifestImages} :
        \A i \in 1..(Len(l) - 1) : l[i][2] <= l[i + 1][2]}

\* one entry of segment_results: success flag, what happens to the segment
\* video (as for an image; it always decodes) and the duration of the file
SegmentResults ==
    {[st |-> "ok", dur |-> Rat(4, 1), success |-> FALSE]}
      \cup {[st |-> st, dur |-> Rat(4, 1), success |-> TRUE] :
               st \in {"nokey", "dlfail", "missing"}}
      \cup {[st |-> "ok", dur |-> d, success |-> TRUE] : d \in ManifestDurations}

\* the manifest a combination event finds: only its audio is read
AudioManifests ==
    {NoManifest} \cup {MakeManifest(<<>>, <<>>, audio) : audio \in AudioOptions}

BlankEvent ==
    [duration |-> Zero, images |-> <<>>, manifest |-> NoManifest,
     has_duration |-> FALSE, segment_results |-> <<>>, project_id |-> TRUE,
     segment_processing |-> FALSE, video_combination |-> FALSE]

NoResponse == [raised |-> FALSE, statusCode |-> 0, error |-> ""]

\* request_id before the first event: the name is not in locals()
NoRequest == 0

\* event_data before the first event
NoEventData == [returncode |-> 0, json |-> FALSE]

----------------------------------------------------------------------------
(* _apply_ken_burns_effect (src/lambda), frame by frame.  An image clip is  *)
(* the source image's size, the duration it is given and whether the       *)
(* effect was put on it (effect) or the except branch returned the image   *)
(* unchanged; count and segment_duration are the segment it was cut from.  *)

NoClip ==
    [made |-> FALSE, duration |-> Zero, segment_duration |-> Zero, count |-> 0,
     src_w |-> 0, src_h |-> 0, effect |-> FALSE]

\* zoom_factor = 1.3
zoom_factor == Rat(13, 10)

\* zoomed_size = (int(target_size[0] * zoom_factor), int(target_size[1] * zoom_factor))
zoomed_size ==
    <<PyInt(RatMulInt(zoom_factor, DEFAULT_RESOLUTION[1])),
      PyInt(RatMulInt(zoom_factor, DEFAULT_RESOLUTION[2]))>>

\* zoom_pan easing with the square of the progress
zoom_pan_eased(t, duration) ==
    LET progress == RatMul(RatDiv(t, duration), RatDiv(t, duration))
    IN  [zoom  |-> RatSub(Rat(13, 10), RatMul(Rat(3, 10), progress)),
         pan_x |-> RatMul(Rat(15, 100), RatSub(One, progress)),
         pan_y |-> RatMul(Rat(15, 100), RatSub(One, progress))]

\* zoom_pan going from 1.0 to 1.3
zoom_pan_widening(t, duration) ==
    [zoom  |-> RatAdd(One, RatDiv(RatMul(Rat(3, 10), t), duration)),
     pan_x |-> RatMul(Rat(15, 100), RatSub(One, RatDiv(t, duration))),
     pan_y |-> RatMul(Rat(15, 100), RatSub(One, RatDiv(t, duration)))]

\* zoom_pan(t), for duration # 0
zoom_pan(t, duration) ==
    [zoom  |-> RatSub(Rat(13, 10), RatDiv(RatMul(Rat(3, 10), t), duration)),
     pan_x |-> RatMul(Rat(15, 100), RatSub(One, RatDiv(t, duration))),
     pan_y |-> RatMul(Rat(15, 100), RatSub(One, RatDiv(t, duration)))]

\* frame[a : a + n] of an axis of the given length, as numpy slices it
SliceLen(a, n, length) ==
    LET lo == IF a > length THEN length ELSE a
        hi == IF a + n > length THEN length ELSE a + n
    IN  IF hi > lo THEN hi - lo ELSE 0

\* apply_effect taking the pan as a share of the whole frame
apply_effect_pan_of_frame(frame_size, t, duration) ==
    LET zp == zoom_pan(t, duration)
        w == frame_size[1]
        h == frame_size[2]
        crop_w == PyInt(RatDiv(Rat(w, 1), zp.zoom))
        crop_h == PyInt(RatDiv(Rat(h, 1), zp.zoom))
        start_x == PyInt(RatMulInt(zp.pan_x, 2 * w))
        start_y == PyInt(RatMulInt(zp.pan_y, 2 * h))
    IN  [t |-> t, zoom |-> zp.zoom, pan_x |-> zp.pan_x, pan_y |-> zp.pan_y,
         w |-> w, h |-> h,
         crop_w |-> crop_w, crop_h |-> crop_h,
         start_x |-> start_x, start_y |-> start_y,
         cropped_w |-> SliceLen(start_x, crop_w, w),
         cropped_h |-> SliceLen(start_y, crop_h, h),
         size |-> DEFAULT_RESOLUTION]

\* apply_effect(get_frame, t) on a frame of the given size (h, w =
\* frame.shape[:2]): the crop region, the crop and the cv2.resize to
\* target_size
apply_effect(frame_size, t, duration) ==
    LET zp == zoom_pan(t, duration)
        w == frame_size[1]
        h == frame_size[2]
        crop_w == PyInt(RatDiv(Rat(w, 1), zp.zoom))
        crop_h == PyInt(RatDiv(Rat(h, 1), zp.zoom))
        start_x == PyInt(RatMulInt(zp.pan_x, w - crop_w))
        start_y == PyInt(RatMulInt(zp.pan_y, h - crop_h))
    IN  [t |-> t, zoom |-> zp.zoom, pan_x |-> zp.pan_x, pan_y |-> zp.pan_y,
         w |-> w, h |-> h,
         crop_w |-> crop_w, crop_h |-> crop_h,
         start_x |-> start_x, start_y |-> start_y,
         cropped_w |-> SliceLen(start_x, crop_w, w),
         cropped_h |-> SliceLen(start_y, crop_h, h),
         size |-> DEFAULT_RESOLUTION]

\* the frame of the unchanged image clip (the except branch)
PlainFrame(t, c) ==
    [t |-> t, zoom |-> One, pan_x |-> Zero, pan_y |-> Zero,
     w |-> c.src_w, h |-> c.src_h,
     crop_w |-> c.src_w, crop_h |-> c.src_h,
     start_x |-> 0, start_y |-> 0,
     cropped_w |-> c.src_w, cropped_h |-> c.src_h,
     size |-> <<c.src_w, c.src_h>>]

\* a resize that leaves the frame as it is
ResizeNothing(frame, newsize) == frame

\* clip.resize(newsize) with an explicit size: every frame gets that size
Resize(frame, newsize) == [frame EXCEPT !.size = newsize]

\* a frame that depends on how many frames were asked before it
GetFrameAtCounting(c, t) ==
    Resize(IF c.effect
           THEN [apply_effect(zoomed_size, RatDivInt(t, Len(shots) + 1),
                              c.duration)
                     EXCEPT !.t = t]
           ELSE PlainFrame(t, c),
           DEFAULT_RESOLUTION)

\* the frame at t of the clip as the segment or final video emits it:
\* make_frame of the clip (apply_effect over the frames of
\* image_clip.resize(zoomed_size), or the image as it is), then
\* .resize(DEFAULT_RESOLUTION) of the video
GetFrameAt(c, t) ==
    Resize(IF c.effect THEN apply_effect(zoomed_size, t, c.duration)
           ELSE PlainFrame(t, c),
           DEFAULT_RESOLUTION)

\* _apply_ken_burns_effect on the i-th of count images of a segment:
\* image_duration = duration / image_count; the effect clip, or the image
\* unchanged when anything in the try block raises (resize or cv2 failing,
\* or t / duration with duration 0 when fl() computes the frame at 0)
ApplyKenBurnsEffectClip(size, count, segment_duration, lib_ok) ==
    LET image_duration == RatDivInt(segment_duration, count)
    IN  [made |-> TRUE, duration |-> image_duration,
         segment_duration |-> segment_duration, count |-> count,
         src_w |-> size[1], src_h |-> size[2],
         effect |-> lib_ok /\ ~RatEq(image_duration, Zero)]

\* the times write_videofile asks a clip for: 0, 1/fps, ... below duration
LastFrameTime(duration) ==
    Rat(Ceil(RatMulInt(duration, DEFAULT_FPS)) - 1, DEFAULT_FPS)

\* times in [0, duration] a frame may be asked at: the first and the last
\* frame written, the middle and the end of the clip
FrameTimes(duration) ==
    IF RatEq(duration, Zero) THEN {}
    ELSE {Zero, RatDivInt(duration, 2), LastFrameTime(duration), duration}

SourceSizes == {<<1, 1>>, <<1000, 1000>>, <<1920, 1080>>, <<3000, 4000>>}

ClipDurations == SegDurations \cup {Zero}

----------------------------------------------------------------------------
(* The state machine *)

Init ==
    /\ impl \in {"lambda", "old"}
    /\ pc = "idle"
    /\ event = BlankEvent
    /\ response = NoResponse
    /\ encoded = NoVideo
    /\ uploaded = "none"
    /\ tmp = {}
    /\ clip = NoClip
    /\ shots = <<>>
    /\ mode = {}
    /\ at = "next"
    /\ request_id = NoRequest
    /\ event_data = NoEventData
    /\ posts = <<>>
    /\ fetched = 0

\* the runtime delivers an event to lambda_handler: one without project_id
\* (whatever its options), a segment-processing event (with or without a
\* duration, with or without options.video_combination as well), a
\* combination event or a full-video event
Deliver(e) ==
    /\ event' = e
    /\ pc' = "invoked"
    /\ UNCHANGED <<impl, response, encoded, uploaded, tmp, clip, shots, mode,
                   bootVars>>

InvokeNoProject ==
    /\ pc = "idle"
    /\ \E sp \in BOOLEAN, vc \in BOOLEAN :
           Deliver([BlankEvent EXCEPT !.project_id = FALSE,
                                      !.segment_processing = sp,
                                      !.video_combination = vc])

InvokeSegment ==
    /\ pc = "idle"
    /\ \E images \in ImageLists(MaxImages), vc \in BOOLEAN :
        \/ \E d \in SegDurations :
               Deliver([BlankEvent EXCEPT !.segment_processing = TRUE,
                                          !.video_combination = vc,
                                          !.images = images,
                                          !.has_duration = TRUE, !.duration = d])
        \/ Deliver([BlankEvent EXCEPT !.segment_processing = TRUE,
                                      !.video_combination = vc,
                                      !.images = images])

InvokeCombination ==
    /\ pc = "idle"
    /\ \E k \in 0..MaxSegments :
        \E results \in [1..k -> SegmentResults], manifest \in AudioManifests :
            Deliver([BlankEvent EXCEPT !.video_combination = TRUE,
                                       !.segment_results = results,
                                       !.manifest = manifest])

InvokeFullVideo ==
    /\ pc = "idle"
    /\ \/ Deliver(BlankEvent)
       \/ \E n \in 0..MaxSegments :
           \E labelled \in LabelledImages(n), durs \in [1..n -> ManifestDurations],
              audio \in AudioOptions :
               Deliver([BlankEvent EXCEPT
                           !.manifest = MakeManifest(labelled, durs, audio)])

\* the branch of lambda_handler an event takes (the same lines in src/lambda
\* and src/old): "none" is the return before any branch
DispatchCombinationFirst(e) ==
    IF ~e.project_id THEN "none"
    ELSE IF e.video_combination THEN "combination"
    ELSE IF e.segment_processing THEN "segment"
    ELSE "full"

Dispatch(e) ==
    IF ~e.project_id THEN "none"
    ELSE IF e.segment_processing THEN "segment"
    ELSE IF e.video_combination THEN "combination"
    ELSE "full"

\* the handler has returned (or raised): entered is the set of processing
\* methods lambda_handler called
Finish(result, files, entered) ==
    /\ response' = result.response
    /\ encoded' = result.encoded
    /\ uploaded' = result.uploaded
    /\ tmp' = files
    /\ mode' = entered
    /\ pc' = "done"
    /\ UNCHANGED <<impl, event, clip, shots, bootVars>>

\* lambda_handler (src/lambda): "project_id is required"
MissingProjectId ==
    /\ pc = "invoked" /\ impl = "lambda"
    /\ Dispatch(event) = "none"
    /\ Finish(HandlerExcept([response |-> ErrorResponse("project_id is required"),
                             encoded |-> NoVideo, uploaded |-> "none"]),
              tmp, {})

ProcessSegment ==
    /\ pc = "invoked" /\ impl = "lambda"
    /\ Dispatch(event) = "segment"
    /\ Finish(HandlerExcept(ProcessSegmentResult(event)),
              ProcessSegmentFiles(event, tmp), {"segment"})

CombineSegments ==
    /\ pc = "invoked" /\ impl = "lambda"
    /\ Dispatch(event) = "combination"
    /\ Finish(HandlerExcept(CombineSegmentsResult(event)),
              CombineSegmentsFiles(event, tmp), {"combination"})

ProcessFullVideo ==
    /\ pc = "invoked" /\ impl = "lambda"
    /\ Dispatch(event) = "full"
    /\ Finish(HandlerExcept(ProcessFullVideoResult(event)),
              ProcessFullVideoFiles(event, tmp), {"full"})

\* lambda_handler (src/old)
MissingProjectIdOld ==
    /\ pc = "invoked" /\ impl = "old"
    /\ Dispatch(event) = "none"
    /\ Finish([response |-> ErrorResponseOld("project_id is required"),
               encoded |-> NoVideo, uploaded |-> "none"],
              tmp, {})

ProcessSegmentOld ==
    /\ pc = "invoked" /\ impl = "old"
    /\ Dispatch(event) = "segment"
    /\ Finish(ProcessSegmentOldResult(event), ProcessSegmentOldFiles(event, tmp),
              {"segment"})

CombineSegmentsOld ==
    /\ pc = "invoked" /\ impl = "old"
    /\ Dispatch(event) = "combination"
    /\ Finish(CombineSegmentsOldResult(event), CombineSegmentsOldFiles(event, tmp),
              {"combination"})

ProcessFullVideoOld ==
    /\ pc = "invoked" /\ impl = "old"
    /\ Dispatch(event) = "full"
    /\ Finish(ProcessFullVideoOldResult(event),
              ProcessFullVideoOldFiles(event, tmp), {"full"})

\* the runtime has the result (or the exception); the next event may come,
\* to the same container and its temp directory
Return ==
    /\ pc = "done"
    /\ pc' = "idle"
    /\ event' = BlankEvent
    /\ response' = NoResponse
    /\ encoded' = NoVideo
    /\ uploaded' = "none"
    /\ mode' = {}
    /\ UNCHANGED <<impl, tmp, clip, shots, bootVars>>

Next ==
    \/ InvokeNoProject
    \/ InvokeSegment
    \/ InvokeCombination
    \/ InvokeFullVideo
    \/ MissingProjectId
    \/ ProcessSegment
    \/ CombineSegments
    \/ ProcessFullVideo
    \/ MissingProjectIdOld
    \/ ProcessSegmentOld
    \/ CombineSegmentsOld
    \/ ProcessFullVideoOld
    \/ Return

Spec == Init /\ [][Next]_vars

----------------------------------------------------------------------------
(* One image clip and the frames asked of it *)

\* the assembler's loop body: ImageClip(image_path), _apply_ken_burns_effect
MakeClip ==
    /\ ~clip.made
    /\ \E size \in SourceSizes, count \in 1..MaxImages,
          segment_duration \in ClipDurations, lib_ok \in BOOLEAN :
           clip' = ApplyKenBurnsEffectClip(size, count, segment_duration, lib_ok)
    /\ shots' = <<>>
    /\ UNCHANGED <<impl, pc, event, response, encoded, uploaded, tmp, mode,
                   bootVars>>

\* the writer (or anyone) asks the clip for its frame at t
GetFrame ==
    /\ clip.made
    /\ Len(shots) < MaxShots
    /\ \E t \in FrameTimes(clip.duration) :
           shots' = Append(shots, GetFrameAt(clip, t))
    /\ UNCHANGED <<impl, pc, event, response, encoded, uploaded, tmp, clip,
                   mode, bootVars>>

\* clip.close()
CloseClip ==
    /\ clip.made
    /\ clip' = NoClip
    /\ shots' = <<>>
    /\ UNCHANGED <<impl, pc, event, response, encoded, uploaded, tmp, mode,
                   bootVars>>

EffectNext == MakeClip \/ GetFrame \/ CloseClip

EffectSpec == Init /\ [][EffectNext]_vars

----------------------------------------------------------------------------
(* The bootstrap loop of src/lambda/bootstrap.py: main() fetches an event   *)
(* from the Runtime API, hands it to ./ken_burns_video_generator.sh and     *)
(* posts what came of it.  at is main's position; request_id and            *)
(* event_data are its locals; posts are the POST requests it made, in       *)
(* order; fetched counts the events the Runtime API has handed out, which   *)
(* are numbered from 1.  event_data holds what the script makes of the      *)
(* event: its exit code and whether its stdout is JSON.                     *)

\* subprocess.run(..., input=event_json.encode('utf-8'), text=True): in text
\* mode communicate() calls input.encode(...), which bytes does not have, so
\* the call raises AttributeError (and kills the script) for every event
SubprocessRunRaises == TRUE

ScriptOutcomes == [returncode : {0, 1}, json : BOOLEAN]

\* requests.post in send_response / send_error: the API answers 202, or
\* another status (only a warning is printed), or the request raises
PostOutcomes == {"202", "other", "raised"}

Post(r, to, o) == Append(posts, [request |-> r, path |-> to, status |-> o])

\* get_next_event() at the top of the loop
GetNextEvent ==
    /\ at = "next"
    /\ \/ \* requests.get raises, or the status code is not 200
          /\ at' = "except"
          /\ UNCHANGED <<request_id, event_data, fetched>>
       \/ \* the Runtime API hands out an event, response.json() raises:
          \* get_next_event does not return and main's locals stay as they are
          /\ fetched < MaxRequests
          /\ fetched' = fetched + 1
          /\ at' = "except"
          /\ UNCHANGED <<request_id, event_data>>
       \/ /\ fetched < MaxRequests
          /\ fetched' = fetched + 1
          /\ request_id' = fetched + 1
          /\ \E data \in ScriptOutcomes : event_data' = data
          /\ at' = "run"
    /\ UNCHANGED <<impl, pc, event, response, encoded, uploaded, tmp, clip,
                   shots, mode, posts>>

\* the rest of the try block: subprocess.run, then send_response or
\* send_error according to the result
RunScript ==
    /\ at = "run"
    /\ IF SubprocessRunRaises
       THEN at' = "except" /\ UNCHANGED posts
       ELSE \E o \in PostOutcomes :
               /\ posts' = Post(request_id,
                                IF event_data.returncode = 0 /\ event_data.json
                                THEN "response" ELSE "error",
                                o)
               /\ at' = IF o = "raised" THEN "except" ELSE "next"
    /\ UNCHANGED <<impl, pc, event, response, encoded, uploaded, tmp, clip,
                   shots, mode, request_id, event_data, fetched>>

\* except Exception: send_error if request_id is in locals(), then
\* time.sleep(1) and the next iteration; an exception raised by send_error
\* leaves main()
Except ==
    /\ at = "except"
    /\ IF request_id = NoRequest
       THEN at' = "next" /\ UNCHANGED posts
       ELSE /\ Len(posts) < MaxPosts
            /\ \E o \in PostOutcomes :
                   /\ posts' = Post(request_id, "error", o)
                   /\ at' = IF o = "raised" THEN "exited" ELSE "next"
    /\ UNCHANGED <<impl, pc, event, response, encoded, uploaded, tmp, clip,
                   shots, mode, request_id, event_data, fetched>>

BootNext == GetNextEvent \/ RunScript \/ Except

BootSpec == Init /\ [][BootNext]_vars

----------------------------------------------------------------------------
(* Vocabulary of the properties: read off the event and the encoded file,  *)
(* not through the operators above                                         *)

Done == pc = "done"

SegmentMode == event.project_id /\ event.segment_processing

CombinationMode ==
    event.project_id /\ ~event.segment_processing /\ event.video_combination

FullVideoMode ==
    /\ event.project_id /\ ~event.segment_processing /\ ~event.video_combination
    /\ event.manifest.ok

\* the segments an event asks the assembler for: 0 is the one segment of a
\* segment event, 1..n are the segments of the manifest
AssembledSegments ==
    IF SegmentMode THEN {0}
    ELSE IF FullVideoMode THEN 1..Len(event.manifest.segments)
    ELSE {}

ImagesOfSegment(s) ==
    IF s = 0 THEN event.images ELSE event.manifest.segments[s].images

\* the duration the caller asks for
TargetOfSegment(s) ==
    IF s = 0 THEN (IF event.has_duration THEN event.duration ELSE Zero)
    ELSE RatSub(event.manifest.segments[s].end_time,
                event.manifest.segments[s].start_time)

\* the places in a list of images whose status is in S, in order
Places(images, S) ==
    SelectSeq([i \in 1..Len(images) |-> i], LAMBDA i : images[i] \in S)

\* the images that reach the assembler (downloaded), and the good ones
Passed(s) == Places(ImagesOfSegment(s), {"ok", "missing", "corrupt"})

Good(s) == Places(ImagesOfSegment(s), {"ok"})

PartsOfSegment(s) == SelectSeq(encoded.parts, LAMBDA p : p.seg = s)

ImgsOf(parts) == [i \in 1..Len(parts) |-> parts[i].img]

SegsOf(parts) == [i \in 1..Len(parts) |-> parts[i].seg]

RECURSIVE SumFrames(_)
SumFrames(parts) ==
    IF parts = <<>> THEN 0
    ELSE SumFrames(SubSeq(parts, 1, Len(parts) - 1)) + parts[Len(parts)].frames

\* nearest integer of a non-negative rational
Round(a) == (2 * a.num + a.den) \div (2 * a.den)

\* the audio file a final video is given
AudioOfEvent == IF event.manifest.ok THEN event.manifest.audio ELSE NoAudio

----------------------------------------------------------------------------
(* C1: when the in-process assembler skips an image whose file is missing, *)
(* the clips it concatenates for that segment still add up to the          *)
(* duration the caller asked for (the last clip absorbs the share of the   *)
(* skipped image).  The code gives every clip duration / len(images) and   *)
(* stretches none, so this is violated.                                    *)
C1_SkippedShareAbsorbed ==
    (Done /\ impl = "lambda" /\ encoded.made) =>
        \A s \in AssembledSegments :
            (/\ PartsOfSegment(s) # <<>>
             /\ Len(Good(s)) < Len(Passed(s)))
            => RatEq(SumDur(PartsOfSegment(s)), TargetOfSegment(s))

----------------------------------------------------------------------------
\* a segment of the manifest gives a clip when one of its images is good and
\* none fails to decode; a segment result gives one when it is marked
\* successful and its video is downloaded and on disk
YieldingSegments ==
    IF FullVideoMode
    THEN {s \in 1..Len(event.manifest.segments) :
             /\ Good(s) # <<>>
             /\ Places(ImagesOfSegment(s), {"corrupt"}) = <<>>}
    ELSE IF CombinationMode
    THEN {i \in 1..Len(event.segment_results) :
             /\ event.segment_results[i].success
             /\ event.segment_results[i].st = "ok"}
    ELSE {}

RequestedSegments ==
    IF FullVideoMode THEN 1..Len(event.manifest.segments)
    ELSE IF CombinationMode THEN 1..Len(event.segment_results)
    ELSE {}

C3_VideoKeepsDurationPastAudio ==
    (/\ Done /\ encoded.made /\ encoded.kind = "final"
     /\ AudioOfEvent.st = "ok"
     /\ RatLt(AudioOfEvent.dur, SumDur(encoded.parts)))
    => RatEq(encoded.duration, SumDur(encoded.parts))

(* C4: the audio attached to a final video of duration V > 0 from an audio *)
(* file of duration A > 0 has length min(A, V): trimmed to V when A > V,   *)
(* unchanged otherwise.                                                    *)
C4_AudioLengthIsMin ==
    (/\ Done /\ encoded.made /\ encoded.kind = "final"
     /\ AudioOfEvent.st = "ok")
    => LET V == SumDur(encoded.parts)
           A == AudioOfEvent.dur
       IN  /\ encoded.has_audio
           /\ RatLt(V, A) => RatEq(encoded.audio, V)
           /\ RatLe(A, V) => RatEq(encoded.audio, A)

C4_Witness ==
    /\ Done /\ impl = "lambda" /\ encoded.made /\ encoded.kind = "final"
    /\ encoded.has_audio
    /\ RatLt(SumDur(encoded.parts), AudioOfEvent.dur)
    /\ RatEq(encoded.audio, SumDur(encoded.parts))

----------------------------------------------------------------------------
\* every image that reaches the assembler for segment s is good, and there
\* is at least one
AllAvailable(s) == Good(s) # <<>> /\ Passed(s) = Good(s)

(* C5 as stated: a segment built from n >= 1 available images contains     *)
(* exactly n image clips, one per image, in the order of the input list,   *)
(* on every segment-rendering path, the ffmpeg segment generator included. *)
C5_OneClipPerImageEveryPath ==
    (Done /\ SegmentMode /\ AllAvailable(0)) =>
        /\ encoded.made
        /\ ImgsOf(encoded.parts) = Good(0)

(* C5, amended: the in-process assembler gives one clip per available      *)
(* image, in input order; the ffmpeg generators render the first image of  *)
(* the list only, so their output holds exactly one image clip.            *)
C5_OneClipPerImageInProcess ==
    /\ (Done /\ impl = "lambda") =>
           \A s \in AssembledSegments :
               AllAvailable(s) => ImgsOf(PartsOfSegment(s)) = Good(s)
    /\ (Done /\ impl = "lambda" /\ SegmentMode /\ AllAvailable(0)) => encoded.made
    /\ (Done /\ impl = "old" /\ SegmentMode /\ AllAvailable(0)) =>
           /\ encoded.made
           /\ ImgsOf(encoded.parts) = <<Good(0)[1]>>
    /\ (Done /\ impl = "old" /\ FullVideoMode /\ encoded.made) =>
           Len(encoded.parts) = 1

C5_Witness ==
    /\ Done /\ impl = "lambda" /\ SegmentMode /\ AllAvailable(0)
    /\ Len(Good(0)) = 3
    /\ ImgsOf(encoded.parts) = Good(0)

(* C6: the final video holds the segment clips in input order (manifest    *)
(* segments in full-video mode, segment_results in combination mode): the  *)
(* relative order of two included segments never changes and no segment    *)
(* is included twice.                                                      *)
C6_SegmentsInInputOrder ==
    (Done /\ encoded.made /\ encoded.kind = "final") =>
        \A i, j \in 1..Len(encoded.parts) :
            i < j =>
                \/ encoded.parts[i].seg < encoded.parts[j].seg
                \/ /\ encoded.parts[i].seg = encoded.parts[j].seg
                   /\ encoded.parts[i].img < encoded.parts[j].img

C6_Witness ==
    /\ Done /\ impl = "lambda" /\ FullVideoMode /\ encoded.made
    /\ Len(encoded.parts) >= 2
    /\ encoded.parts[1].seg = 1
    /\ encoded.parts[Len(encoded.parts)].seg = 2

(* C7: for a non-empty image list and a segment duration > 0, the frame    *)
(* counts of the image clips add up to round(duration x fps), the nearest  *)
(* integer.  The ffmpeg generator asks for int(duration * fps) frames, a   *)
(* truncation, so this is violated.                                        *)
C7_FramesSumToRounded ==
    (/\ Done /\ SegmentMode /\ encoded.made
     /\ AllAvailable(0)
     /\ RatLt(Zero, TargetOfSegment(0)))
    => SumFrames(encoded.parts) = Round(RatMulInt(TargetOfSegment(0), DEFAULT_FPS))

(* C8: in a segment with n >= 1 images and duration D, every image clip of *)
(* the in-process assembler has duration D / n, n being the number of      *)
(* images passed to the assembler, whatever the image and its position.    *)
C8_EvenSplitOverPassedImages ==
    (Done /\ impl = "lambda" /\ encoded.made) =>
        \A s \in AssembledSegments :
            \A i \in 1..Len(PartsOfSegment(s)) :
                RatEq(RatMulInt(PartsOfSegment(s)[i].dur, Len(Passed(s))),
                      TargetOfSegment(s))

C8_Witness ==
    /\ Done /\ impl = "lambda" /\ SegmentMode /\ encoded.made
    /\ Len(Passed(0)) = 3
    /\ Len(encoded.parts) = 2
    /\ RatLt(Zero, TargetOfSegment(0))
    /\ RatEq(RatMulInt(encoded.parts[1].dur, 3), TargetOfSegment(0))

(* C9: one image that cannot be synthesized, in a segment with other good  *)
(* images, does not fail the segment: it alone is skipped and the good     *)
(* images are rendered.  ImageClip raises on such a file and nothing in    *)
(* the loop catches it, so this is violated.                               *)
C9_CorruptImageSkipped ==
    (/\ Done /\ SegmentMode
     /\ Good(0) # <<>>
     /\ Len(Places(ImagesOfSegment(0), {"corrupt"})) = 1)
    => /\ encoded.made
       /\ ImgsOf(encoded.parts) = Good(0)

(* C10: building a segment from an image list that is empty, or in which   *)
(* no image is usable, signals an error to the caller on every path, and   *)
(* no video is made without that segment.  _create_ken_burns_segment       *)
(* returns None and its caller passes over it; the ffmpeg handlers answer  *)
(* 200 with no video; so this is violated.                                 *)
C10_UnusableImagesSignalError ==
    (Done /\ \E s \in AssembledSegments : Good(s) = <<>>) =>
        /\ ~encoded.made
        /\ response.raised \/ response.statusCode >= 400

----------------------------------------------------------------------------
(* Properties of one image clip (EffectSpec) *)

\* the frames asked of a clip that carries the effect
EffectShots == IF clip.made /\ clip.effect THEN 1..Len(shots) ELSE {}

zoomStart == Rat(13, 10)

zoomEnd == One

panStart == Rat(15, 100)

panEnd == Zero

(* C11: for a positive clip duration d the effect parameters are           *)
(* (1.3, 0.15, 0.15) at t = 0 and (1.0, 0, 0) at t = d, and at every t in  *)
(* [0, d] they are the linear interpolation between the two:               *)
(* (zoomStart - zoom) * d = (zoomStart - zoomEnd) * t, and likewise pan.   *)
C11_LinearInterpolation ==
    \A i \in EffectShots :
        LET f == shots[i]
            d == clip.duration
        IN  /\ RatEq(f.t, Zero) =>
                   f.zoom = zoomStart /\ f.pan_x = panStart /\ f.pan_y = panStart
            /\ RatEq(f.t, d) =>
                   f.zoom = zoomEnd /\ f.pan_x = panEnd /\ f.pan_y = panEnd
            /\ RatEq(RatMul(RatSub(zoomStart, f.zoom), d),
                     RatMul(RatSub(zoomStart, zoomEnd), f.t))
            /\ RatEq(RatMul(RatSub(f.pan_x, panStart), d),
                     RatMul(RatSub(panEnd, panStart), f.t))
            /\ RatEq(RatMul(RatSub(f.pan_y, panStart), d),
                     RatMul(RatSub(panEnd, panStart), f.t))

C11_Witness ==
    /\ clip.made /\ clip.effect /\ Len(shots) = 3
    /\ RatEq(shots[1].t, Zero)
    /\ RatEq(shots[2].t, RatDivInt(clip.duration, 2))
    /\ RatEq(shots[3].t, clip.duration)
    /\ shots[3].zoom = zoomEnd

(* C12: within one image clip the zoom never increases with time: for      *)
(* t1 < t2 in [0, duration], zoom(t1) >= zoom(t2), and zoom stays within   *)
(* [zoomEnd, zoomStart] = [1.0, 1.3].                                      *)
C12_ZoomNeverIncreases ==
    /\ \A i, j \in EffectShots :
           RatLt(shots[i].t, shots[j].t) => RatLe(shots[j].zoom, shots[i].zoom)
    /\ \A i \in EffectShots :
           RatLe(zoomEnd, shots[i].zoom) /\ RatLe(shots[i].zoom, zoomStart)

C12_Witness ==
    /\ clip.made /\ clip.effect /\ Len(shots) >= 2
    /\ RatLt(shots[1].t, shots[2].t)
    /\ RatLt(shots[2].zoom, shots[1].zoom)

(* C13: for every frame time in [0, duration] the crop rectangle is        *)
(* non-empty and inside the frame: cropW = floor(w / zoom) >= 1, cropH =   *)
(* floor(h / zoom) >= 1, 0 <= originX <= w - cropW, 0 <= originY <= h -    *)
(* cropH.                                                                  *)
C13_CropInsideFrame ==
    \A i \in EffectShots :
        LET f == shots[i]
        IN  /\ f.crop_w >= 1 /\ f.crop_h >= 1
            /\ RatLe(RatMulInt(f.zoom, f.crop_w), Rat(f.w, 1))
            /\ RatLt(Rat(f.w, 1), RatMulInt(f.zoom, f.crop_w + 1))
            /\ RatLe(RatMulInt(f.zoom, f.crop_h), Rat(f.h, 1))
            /\ RatLt(Rat(f.h, 1), RatMulInt(f.zoom, f.crop_h + 1))
            /\ 0 <= f.start_x /\ f.start_x <= f.w - f.crop_w
            /\ 0 <= f.start_y /\ f.start_y <= f.h - f.crop_h
            /\ f.cropped_w = f.crop_w /\ f.cropped_h = f.crop_h

C13_Witness ==
    /\ clip.made /\ clip.effect /\ Len(shots) >= 1
    /\ shots[1].start_x > 0 /\ shots[1].start_y > 0
    /\ shots[1].start_x + shots[1].crop_w < shots[1].w

(* C14: every frame emitted for a clip has the output resolution           *)
(* 1920 x 1080, whatever the size of the source image, also when applying  *)
(* the effect failed and the clip is the image unchanged.                  *)
C14_FramesHaveOutputResolution ==
    \A i \in 1..Len(shots) : shots[i].size = <<1920, 1080>>

C14_Witness ==
    /\ clip.made /\ ~clip.effect /\ Len(shots) >= 1
    /\ <<clip.src_w, clip.src_h>> # <<1920, 1080>>
    /\ shots[1].size = <<1920, 1080>>

(* C15: in a segment of two images and 4 s at 24 fps, the first frame has  *)
(* crop ratio 1/1.3 and the last frame of the segment (frame 95, the last  *)
(* frame written of the second clip) has crop ratio 1/1.0, the full        *)
(* pre-scaled frame.  The last frame written is at t = 47/24 of a clip of  *)
(* 2 s, where the zoom is still 1.00625, so this is violated.              *)
C15_LastFrameIsFullFrame ==
    (/\ clip.made /\ clip.effect /\ clip.count = 2
     /\ RatEq(clip.segment_duration, Rat(4, 1)))
    => \A i \in 1..Len(shots) :
           LET f == shots[i]
           IN  /\ RatEq(f.t, Zero) => 13 * f.crop_w = 10 * f.w
               /\ RatEq(f.t, LastFrameTime(clip.duration)) =>
                      f.crop_w = f.w /\ f.crop_h = f.h

(* C16: pre-scaling a source image keeps its aspect ratio (up to integer   *)
(* rounding of the two scaled dimensions) and makes each dimension at      *)
(* least the output dimension times zoomStart.  The image is resized to    *)
(* the fixed size 2496 x 1404 whatever its shape, so this is violated.     *)
C16_PreScaleKeepsAspectRatio ==
    \A i \in EffectShots :
        LET f == shots[i]
        IN  /\ Abs(f.w * clip.src_h - f.h * clip.src_w) <= clip.src_w + clip.src_h
            /\ RatLe(RatMulInt(zoomStart, 1920), Rat(f.w, 1))
            /\ RatLe(RatMulInt(zoomStart, 1080), Rat(f.h, 1))

(* C17: a clip duration that is not strictly positive is rejected before   *)
(* any effect parameter is computed: no clip is made with duration 0.      *)
(* _apply_ken_burns_effect checks nothing; with duration 0 it divides by   *)
(* zero, catches that and returns the image with duration 0.               *)
C17_NonPositiveDurationRejected ==
    clip.made => RatLt(Zero, clip.duration)

----------------------------------------------------------------------------
(* C18: after a handler invocation has returned, whether it succeeded or   *)
(* failed, every temporary file it downloaded or generated is gone from    *)
(* the temp directory, and none is there when the next invocation starts.  *)
(* In src/lambda the upload raises before _cleanup_temp_files is reached,  *)
(* no exit path has a finally, and the cleanup would not match the         *)
(* segment_ files anyway, so this is violated.                             *)
C18_TempFilesRemoved ==
    pc \in {"done", "idle"} => tmp = {}

(* C20: a handler answers statusCode 200 only if the video, segment or     *)
(* final, was generated and uploaded.  The ffmpeg handlers do not test     *)
(* what the generator and the upload returned, so this is violated.        *)
C20_SuccessMeansUploaded ==
    (Done /\ response.statusCode = 200) =>
        /\ encoded.made
        /\ uploaded # "none"

----------------------------------------------------------------------------
(* The handler's answer and its choice of processing method *)

\* C21: lambda_handler is total: whatever the event, the invocation ends with
\* a response whose statusCode is 200 or 500, and no exception leaves the
\* handler, not even from building the success or the error response.
C21_HandlerTotal ==
    Done => ~response.raised /\ response.statusCode \in {200, 500}

\* C22: an event without a project_id is answered with a 500 response whose
\* message is "project_id is required", and the invocation enters no
\* processing method: it makes no video, uploads nothing and leaves the temp
\* directory as it found it.
C22_MissingProjectIdRejected ==
    [][(pc = "invoked" /\ ~event.project_id)
          => /\ ~response'.raised
             /\ response'.statusCode = 500
             /\ response'.error = "project_id is required"
             /\ mode' = {}
             /\ encoded' = NoVideo
             /\ uploaded' = "none"
             /\ tmp' = tmp]_vars

\* C23: an invocation whose event has a project_id enters exactly one
\* processing method: segment processing when options.segment_processing is
\* set (also when options.video_combination is set too), else segment
\* combination when options.video_combination is set, else full-video
\* processing.
C23_OneModeByPriority ==
    (Done /\ event.project_id)
        => mode = {IF event.segment_processing THEN "segment"
                   ELSE IF event.video_combination THEN "combination"
                   ELSE "full"}

\* an event with both options set has been handled, by segment processing
C23_Witness ==
    /\ Done /\ event.project_id
    /\ event.segment_processing /\ event.video_combination
    /\ mode = {"segment"}

----------------------------------------------------------------------------
(* The bootstrap loop *)

\* the POST requests that reached the Runtime API for request r
Posted(r) == {i \in DOMAIN posts : posts[i].request = r /\ posts[i].status # "raised"}

\* C24: over a run of the bootstrap loop at most one result (response or
\* error) is posted to the Runtime API for a request id: a failure while
\* fetching or handling a later event posts nothing for the request id of an
\* event that has its answer.
C24_AtMostOnePostPerRequest ==
    \A r \in 1..fetched : Cardinality(Posted(r)) <= 1

\* C25: the bootstrap loop never exits: whatever fails in an iteration, the
\* exception stays inside the loop, which pauses and fetches the next event.
C25_LoopNeverExits ==
    at # "exited"

====
